---- MODULE Spec2Model ----
(***************************************************************************)
(* HitecDServo: the bit-banged single-wire register protocol of Hitec      *)
(* D-series servos (HitecDServo.cpp / HitecDServo.h).                       *)
(*                                                                         *)
(* The model follows one HitecDServo object and the digital pins it        *)
(* touches.  readReg and writeReg are modelled statement group by          *)
(* statement group (one step per writeByte / readByte call), so that the   *)
(* interrupt flag, the pin mode and the output latch can be observed       *)
(* between the bytes of an exchange.                                       *)
(*                                                                         *)
(* Integer widths are those of the AVR target the code is written for      *)
(* (it uses SREG and cli()): int is 16 bits, uint8_t 8 bits, uint16_t      *)
(* 16 bits.                                                                 *)
(***************************************************************************)
EXTENDS Integers, Sequences, FiniteSets, TLC

(***************************************************************************)
(* Bounds of the model.                                                    *)
(***************************************************************************)
\* number of digital pins attach() may be given
NumPins == 1
\* number of register addresses (taken from RegList) the callers use
NumRegs == 3
\* number of byte values (taken from ByteList) the servo's value bytes and
\* the mystery byte are drawn from
NumBytes == 2
\* number of 16-bit values (taken from ValList) writeReg is called with
NumVals == 4
\* number of bytes of one response that deviate from a well-formed response
MaxFaults == 1
\* number of well-formed responses (taken from SeedList) per register that
\* get one byte replaced by every value readByte can return
NumSeeds == 3
\* number of candidate values per field of the configurations handed to
\* writeConfig, and of earlier calibrations of the servo
NumChoices == 2
\* initial value of readByte's timeout_counter (F_CPU * 0.004 / 15 in the
\* source: the number of tests of the line before readByte gives up)
MaxPolls == 2
\* number of contents (taken from OriginalList) the five registers of the
\* servo hold before the gentle-movement settings are applied
NumOriginals == 3
\* number of candidate triples of calibration fields (taken from
\* RawAngleList)
NumAngles == 3

(***************************************************************************)
(* Program constants.                                                      *)
(***************************************************************************)
HITECD_OK == 1
HITECD_ERR_NO_SERVO == -1
HITECD_ERR_NO_RESISTOR == -2
HITECD_ERR_CORRUPT == -3
HITECD_ERR_UNSUPPORTED_MODEL == -4
HITECD_ERR_NOT_ATTACHED == -5

\* HitecDServo::HitecDServo() : pin(-1)
NoPin == -1

\* first byte of every request (0x96) and of every response (0x69)
REQ_MAGIC == 150
RESP_MAGIC == 105
\* length byte of a write request and of a read response (0x02)
LEN_VALUE == 2
\* bit 7 of SREG is the global interrupt enable flag I (weight 0x80)
SREG_I == 128

Pins == 2..(1 + NumPins)

\* register addresses used by the callers: 0x00 (readModelNumber), 0xFF,
\* 0xB2, 0x0A, 0x54, 0x56
RegList == <<0, 255, 178, 10, 84, 86>>
Min(a, b) == IF a < b THEN a ELSE b
Regs == {RegList[i] : i \in 1..Min(NumRegs, Len(RegList))}

\* byte values: 0xFF and 0xFD are the bytes whose low 8 bits equal those of
\* the error codes -1 and -3; 0x80 and 0xFF have bit 7 set
ByteList == <<255, 0, 253, 128, 52, 18, 1>>
Bytes == {ByteList[i] : i \in 1..Min(NumBytes, Len(ByteList))}

\* 16-bit values: 0x0000, 0x1234, 0xFFFF, 0x8000, 0x0190, 0x00FF
ValList == <<0, 4660, 65535, 32768, 400, 255>>
Vals == {ValList[i] : i \in 1..Min(NumVals, Len(ValList))}

\* values of SREG in the caller: interrupts off (0x02) and on (0x82)
SregValues == {2, 130}

VARIABLES
  pin,        \* HitecDServo::pin (NoPin when detached)
  port,       \* the pin pinBitMask / pinInputRegister / pinOutputRegister
              \* address (NoPin: never initialised)
  mode,       \* direction of the digital pin of port
  latch,      \* PORT bit (output latch) of the digital pin of port
  SREG,       \* AVR status register
  pc,         \* position of the single thread of control
  caller,     \* public operation in progress / last completed
  reg,        \* readReg / writeReg argument reg
  val,        \* writeReg argument val
  old_sreg,   \* local old_sreg
  entry_sreg, \* SREG as it was when the call in progress was entered
  tx,         \* bytes handed to writeByte during the current call, in order
  rx,         \* values returned by the readByte calls of the current call
  faults,     \* how many of them deviate from a well-formed response
  lvl,        \* results of the digitalRead calls of the current call
  ret,        \* value returned by readReg ("void" for writeReg)
  val_out,    \* the location val_out points to
  outWrites,  \* number of stores through val_out during the current call
  result,     \* value returned by the public operation last completed
  events,     \* line and timing statements of the current call, in order
  modelNumber,     \* HitecDServo::modelNumber (<<>>: never assigned)
  wire,            \* levels of the bit slots of the byte on the line
  timeout_counter, \* readByte local timeout_counter
  config,          \* the HitecDServoConfig handed to writeConfig
  cfgResult,       \* what writeConfig returned
  cfgLog,          \* register accesses writeConfig made, in order
  servoRegs,       \* calibration registers of the servo
  usingGentleMovementSettings, \* Move.cpp: usingGentleMovementSettings
  saved,           \* Move.cpp: saved0xB2, saved0xC2, saved0xB0, saved0x54,
                   \* saved0x56
  registers,       \* registers 0xB2, 0xC2, 0xB0, 0x54, 0x56 of the servo
  original         \* registers as they were when the gentle-movement
                   \* settings in force were applied (<<>>: never applied)

vars == <<pin, port, mode, latch, SREG, pc, caller, entry_sreg, reg, val,
          old_sreg, tx,
          rx, faults, lvl, ret, val_out, outWrites, result, events,
          modelNumber, wire, timeout_counter, config, cfgResult, cfgLog,
          servoRegs, usingGentleMovementSettings, saved, registers,
          original>>

\* state of the HitecDProgrammer sketch and of the servo it programs
sketch == <<usingGentleMovementSettings, saved, registers, original>>

locals == <<reg, val, old_sreg, tx, rx, faults, lvl, ret, val_out, outWrites,
            events>>

\* state the register protocol (attach, detach, readReg, writeReg) leaves
\* alone
aux == <<modelNumber, wire, timeout_counter, config, cfgResult, cfgLog,
         servoRegs, sketch>>

(***************************************************************************)
(* Fixed-width arithmetic of the AVR target.                               *)
(***************************************************************************)
\* conversion to uint8_t / uint16_t: reduction modulo 2^8 / 2^16
ToUint8(x) == x % 256
ToUint16(x) == x % 65536
\* conversion to the 16-bit int: the value modulo 2^16 with the sign bit
ToInt16(x) == IF x % 65536 >= 32768 THEN (x % 65536) - 65536 ELSE x % 65536

(***************************************************************************)
(* SREG and cli().                                                         *)
(***************************************************************************)
InterruptsEnabled(s) == (s % 256) >= SREG_I

\* a cli() that leaves the I flag as it is
cli_noop(s) == s
\* cli(): clear the global interrupt enable flag, keep the other flags
cli(s) == IF InterruptsEnabled(s) THEN s - SREG_I ELSE s

\* leaving the critical section with sei() instead of restoring SREG
restoreSREG_sei(old) == IF InterruptsEnabled(old) THEN old ELSE old + SREG_I
\* SREG = old_sreg
restoreSREG(old) == old

(***************************************************************************)
(* The line.  mode and latch are the direction and the PORT bit of the     *)
(* digital pin the object's port registers address (port).                 *)
(* pinMode(INPUT_PULLUP) clears the direction bit and sets the PORT bit;   *)
(* pinMode(OUTPUT) sets the direction bit and keeps the PORT bit;           *)
(* digitalWrite writes the PORT bit.  hit: the call lands on that pin.     *)
(***************************************************************************)
pinMode_mode(md, hit, m) == IF hit THEN m ELSE md
pinMode_latch(lt, hit, m) ==
  IF ~hit THEN lt
  ELSE IF m = "INPUT_PULLUP" THEN "HIGH"
  ELSE IF m = "INPUT" THEN "LOW"
  ELSE lt
digitalWrite_latch_noop(lt, hit, v) == lt
digitalWrite_latch(lt, hit, v) == IF hit THEN v ELSE lt

\* whether a pinMode / digitalWrite on HitecDServo::pin lands on the pin of
\* port: it does while attached; with pin = -1 the pin tables are read out
\* of range, and it may or may not
PinHits == IF pin = NoPin THEN (IF port = NoPin THEN {FALSE} ELSE BOOLEAN)
           ELSE {pin = port}
\* whether a store through pinOutputRegister lands on the pin of port:
\* before the first attach() the pointer addresses no pin of the model
PortHits == {port # NoPin}

(***************************************************************************)
(* Frames.                                                                 *)
(***************************************************************************)
\* a write checksum that leaves out the register address
writeChecksum_noreg(r, low, high) == ToUint8(0 + LEN_VALUE + low + high)
\* uint8_t checksum = (0x00 + reg + 0x02 + low + high) & 0xFF
writeChecksum(r, low, high) == ToUint8(0 + r + LEN_VALUE + low + high)

\* a read checksum that is a constant
readChecksum_zero(r) == 0
\* uint8_t checksum = (0x00 + reg + 0x00) & 0xFF
readChecksum(r) == ToUint8(0 + r + 0)

\* the bytes writeReg hands to writeByte, in order
writeRequest(r, v) ==
  LET low == ToUint8(v % 256)
      high == ToUint8((v \div 256) % 256)
  IN <<REQ_MAGIC, 0, r, LEN_VALUE, low, high, writeChecksum(r, low, high)>>

\* the bytes readReg hands to writeByte, in order
readRequest(r) == <<REQ_MAGIC, 0, r, 0, readChecksum(r)>>

\* validation that lets a timed-out mystery, low or high byte through
validate_noTimeoutChecks(r, b) ==
  IF b[1] # RESP_MAGIC THEN HITECD_ERR_CORRUPT
  ELSE IF b[3] # r THEN HITECD_ERR_CORRUPT
  ELSE IF b[4] # LEN_VALUE THEN HITECD_ERR_CORRUPT
  ELSE IF b[7] # ToUint8(ToInt16(b[2] + b[3] + b[4] + b[5] + b[6]))
    THEN HITECD_ERR_CORRUPT
  ELSE HITECD_OK
\* validation that accepts one value of the mystery byte only
validate_mysteryZero(r, b) ==
  IF b[1] # RESP_MAGIC THEN HITECD_ERR_CORRUPT
  ELSE IF b[2] # 0 THEN HITECD_ERR_CORRUPT
  ELSE IF b[3] # r THEN HITECD_ERR_CORRUPT
  ELSE IF b[4] # LEN_VALUE THEN HITECD_ERR_CORRUPT
  ELSE IF b[5] < 0 THEN HITECD_ERR_CORRUPT
  ELSE IF b[6] < 0 THEN HITECD_ERR_CORRUPT
  ELSE IF b[7] # ToUint8(ToInt16(b[2] + b[3] + b[4] + b[5] + b[6]))
    THEN HITECD_ERR_CORRUPT
  ELSE HITECD_OK
\* validation that does not compare the checksum
validate_noChecksum(r, b) ==
  IF b[1] # RESP_MAGIC THEN HITECD_ERR_CORRUPT
  ELSE IF b[2] < 0 THEN HITECD_ERR_CORRUPT
  ELSE IF b[3] # r THEN HITECD_ERR_CORRUPT
  ELSE IF b[4] # LEN_VALUE THEN HITECD_ERR_CORRUPT
  ELSE IF b[5] < 0 THEN HITECD_ERR_CORRUPT
  ELSE IF b[6] < 0 THEN HITECD_ERR_CORRUPT
  ELSE HITECD_OK
\* the chain of checks at the end of readReg, on the seven readByte results
\* b = <<const_0x69, mystery, reg2, const_0x02, low, high, checksum2>>; the
\* sum is an int sum, the mask & 0xFF takes its low eight bits
validate(r, b) ==
  IF b[1] # RESP_MAGIC THEN HITECD_ERR_CORRUPT
  ELSE IF b[2] < 0 THEN HITECD_ERR_CORRUPT
  ELSE IF b[3] # r THEN HITECD_ERR_CORRUPT
  ELSE IF b[4] # LEN_VALUE THEN HITECD_ERR_CORRUPT
  ELSE IF b[5] < 0 THEN HITECD_ERR_CORRUPT
  ELSE IF b[6] < 0 THEN HITECD_ERR_CORRUPT
  ELSE IF b[7] # ToUint8(ToInt16(b[2] + b[3] + b[4] + b[5] + b[6]))
    THEN HITECD_ERR_CORRUPT
  ELSE HITECD_OK

\* a value that keeps the int result of the shift when it is positive only
valueOf_signed(low, high) ==
  IF ToInt16(high * 256) < 0 THEN ToUint16(low) ELSE ToUint16(low + high * 256)
\* *val_out = low + (high << 8): the shift and the sum are 16-bit int
\* operations (a shift into the sign bit wraps), the store converts to
\* uint16_t
valueOf(low, high) == ToUint16(ToInt16(low + ToInt16(high * 256)))

(***************************************************************************)
(* The line as readReg sees it.                                            *)
(***************************************************************************)
\* a servo-present test that never fails
noServoCheck_never(level) == FALSE
\* if (digitalRead(pin) != LOW): nothing pulls the released line low
noServoCheck(level) == level # "LOW"

\* a pull-up test that never fails
noResistorCheck_never(level) == FALSE
\* if (digitalRead(pin) != HIGH): the line does not float high
noResistorCheck(level) == level # "HIGH"

\* what one readByte call can return: a byte, HITECD_ERR_NO_SERVO after the
\* 4 ms wait for the start bit, HITECD_ERR_CORRUPT for a missing stop bit
ReadByteResults == (0..255) \cup {HITECD_ERR_NO_SERVO, HITECD_ERR_CORRUPT}

\* the values byte i of a well-formed response to a read of register r can
\* have, given the bytes b received before it
Expected(i, r, b) ==
  CASE i = 1 -> {RESP_MAGIC}
    [] i = 3 -> {r}
    [] i = 4 -> {LEN_VALUE}
    [] i = 7 -> {ToUint8(b[2] + b[3] + b[4] + b[5] + b[6])}
    [] OTHER -> 0..255

\* the values the model lets readByte call i return
FaultVals == {HITECD_ERR_NO_SERVO, HITECD_ERR_CORRUPT, REQ_MAGIC}
ReadByteChoices(i, r, b, f) ==
  (IF i \in {2, 5, 6} THEN Bytes ELSE Expected(i, r, b))
    \cup (IF f < MaxFaults THEN FaultVals ELSE {})

\* number of bytes of b that are not what a well-formed response has there
FaultCount(r, b) ==
  Cardinality({i \in 1..Len(b) : b[i] \notin Expected(i, r, b)})

\* the well-formed response to a read of register r
WellFormedFrame(r, m, lo, hi) ==
  <<RESP_MAGIC, m, r, LEN_VALUE, lo, hi, ToUint8(m + r + LEN_VALUE + lo + hi)>>

(***************************************************************************)
(* Initial state: the object after HitecDServo::HitecDServo(), the pins    *)
(* as after reset.                                                         *)
(***************************************************************************)
NoLocals ==
  /\ reg = 0
  /\ val = 0
  /\ old_sreg = 0
  /\ tx = <<>>
  /\ rx = <<>>
  /\ faults = 0
  /\ lvl = <<>>
  /\ ret = <<>>
  /\ val_out = <<>>
  /\ outWrites = 0
  /\ events = <<>>

\* the globals of Move.cpp as the program starts; no servo is followed
SketchInit ==
  /\ usingGentleMovementSettings = FALSE
  /\ saved = <<>>
  /\ registers = <<>>
  /\ original = <<>>

\* the constructor initialises pin only: modelNumber holds no assigned value
AuxInit ==
  /\ modelNumber = <<>>
  /\ wire = <<>>
  /\ timeout_counter = 0
  /\ config = <<>>
  /\ cfgResult = <<>>
  /\ cfgLog = <<>>
  /\ servoRegs = <<>>
  /\ SketchInit

Init ==
  /\ pin = NoPin
  /\ port = NoPin
  /\ mode = "INPUT"
  /\ latch = "LOW"
  /\ SREG \in SregValues
  /\ pc = "idle"
  /\ caller = "none"
  /\ entry_sreg = SREG
  /\ result = <<>>
  /\ NoLocals
  /\ AuxInit

\* entering a call: fresh locals
Enter(op, entry, r, v) ==
  /\ pc' = entry
  /\ caller' = op
  /\ entry_sreg' = SREG
  /\ reg' = r
  /\ val' = v
  /\ old_sreg' = 0
  /\ tx' = <<>>
  /\ rx' = <<>>
  /\ faults' = 0
  /\ lvl' = <<>>
  /\ ret' = <<>>
  /\ val_out' = <<>>
  /\ outWrites' = 0
  /\ events' = <<>>
  /\ result' = <<>>

(***************************************************************************)
(* Public operations.                                                      *)
(***************************************************************************)
attach(p) ==
  /\ pc = "idle"
  /\ pin' = p
  /\ mode' = pinMode_mode(mode, TRUE, "OUTPUT")
  /\ latch' = digitalWrite_latch(pinMode_latch(latch, TRUE, "OUTPUT"), TRUE,
                                 "LOW")
  /\ port' = p
  /\ Enter("attach", "idle", 0, 0)
  /\ UNCHANGED SREG
  /\ UNCHANGED aux

\* bool HitecDServo::attached(): return (pin != -1);
attached == pin # NoPin

detach ==
  /\ pc = "idle"
  /\ pin' = NoPin
  /\ Enter("detach", "idle", 0, 0)
  /\ UNCHANGED <<port, mode, latch, SREG>>
  /\ UNCHANGED aux

\* int res = readReg(0x00, &modelNumber): no test of pin comes first
readModelNumber ==
  /\ pc = "idle"
  /\ Enter("readModelNumber", "readReg", 0, 0)
  /\ UNCHANGED <<pin, port, mode, latch, SREG>>
  /\ UNCHANGED aux

\* without a bound pin the call fails with HITECD_ERR_NOT_ATTACHED at once
readRawRegister(r) ==
  /\ pc = "idle"
  /\ IF pin = NoPin
       THEN /\ caller' = "readRawRegister"
            /\ result' = <<HITECD_ERR_NOT_ATTACHED>>
            /\ UNCHANGED <<pc, entry_sreg, locals>>
       ELSE Enter("readRawRegister", "readReg", r, 0)
  /\ UNCHANGED <<pin, port, mode, latch, SREG>>
  /\ UNCHANGED aux

writeRawRegister(r, v) ==
  /\ pc = "idle"
  /\ IF pin = NoPin
       THEN /\ caller' = "writeRawRegister"
            /\ result' = <<HITECD_ERR_NOT_ATTACHED>>
            /\ UNCHANGED <<pc, entry_sreg, locals>>
       ELSE Enter("writeRawRegister", "writeReg", r, v)
  /\ UNCHANGED <<pin, port, mode, latch, SREG>>
  /\ UNCHANGED aux

(***************************************************************************)
(* The bit slots of one byte: what writeByte drives and what readByte      *)
(* makes of the levels it samples.                                         *)
(***************************************************************************)
Bit(v, k) == (v \div (2 ^ k)) % 2

\* if (val & m) *pinOutputRegister &= ~pinBitMask;
\* else *pinOutputRegister |= pinBitMask;
bitLevel_plain(bit) == IF bit = 1 THEN "HIGH" ELSE "LOW"
bitLevel(bit) == IF bit = 1 THEN "LOW" ELSE "HIGH"

\* the levels writeByte(v) drives: start bit, m = 0x01 ... 0x80, stop bit
writeByte_levels(v) ==
  <<"HIGH">> \o [k \in 1..8 |-> bitLevel(Bit(v, k - 1))] \o <<"LOW">>

\* the data bits of readByte: val |= m where the sample is LOW
RECURSIVE readByte_bits(_, _)
readByte_bits(samples, k) ==
  IF k = 8 THEN 0
  ELSE (IF samples[k + 1] = "LOW" THEN 2 ^ k ELSE 0)
       + readByte_bits(samples, k + 1)

\* what readByte returns once it has seen the start bit: samples are the
\* levels at the eight data bits and at the stop bit
readByte_value(samples) ==
  IF samples[9] = "HIGH" THEN HITECD_ERR_CORRUPT
  ELSE readByte_bits(samples, 0)

(***************************************************************************)
(* The statements of readReg that act on the line or wait, as they are     *)
(* recorded in events, in the order of the source.                         *)
(***************************************************************************)
\* digitalWrite(pin, LOW);
endRequestEvents == <<"digitalWrite_LOW">>

\* delay(14); pinMode(pin, INPUT_PULLUP);
releaseEvents_releaseFirst == <<"pinMode_INPUT_PULLUP", "delay_14">>
releaseEvents == <<"delay_14", "pinMode_INPUT_PULLUP">>

\* if (digitalRead(pin) != LOW) { delay(2); pinMode(pin, OUTPUT); ... }
probeEvents(absent) ==
  IF absent THEN <<"digitalRead", "delay_2", "pinMode_OUTPUT">>
            ELSE <<"digitalRead">>

\* delay(1); if (digitalRead(pin) != HIGH) { pinMode(pin, OUTPUT); ... }
\* pinMode(pin, OUTPUT);
floatEvents == <<"delay_1", "digitalRead", "pinMode_OUTPUT">>

\* events of a read that has received its seven bytes and passed both tests
\* of the line
eventsAtValidate ==
  [i \in 1..5 |-> "writeByte"] \o endRequestEvents \o releaseEvents \o
  probeEvents(FALSE) \o [i \in 1..7 |-> "readByte"] \o floatEvents

(***************************************************************************)
(* writeByte and readByte, one step per call.                              *)
(***************************************************************************)
\* writeByte(b): start bit, eight data bits, stop bit through
\* pinOutputRegister; the stop bit leaves the PORT bit low
writeByte(b) ==
  /\ tx' = Append(tx, b)
  /\ \E t \in PortHits :
       latch' = digitalWrite_latch(latch, t, writeByte_levels(b)[10])
  /\ UNCHANGED mode
  /\ events' = Append(events, "writeByte")

\* readByte(): the value comes from the line
readByte ==
  \E b \in ReadByteChoices(Len(rx) + 1, reg, rx, faults) :
    /\ b \in ReadByteResults
    /\ rx' = Append(rx, b)
    /\ faults' = faults + (IF b \in Expected(Len(rx) + 1, reg, rx) THEN 0 ELSE 1)
    /\ events' = Append(events, "readByte")

(***************************************************************************)
(* void HitecDServo::writeReg(uint8_t reg, uint16_t val)                   *)
(***************************************************************************)
\* uint8_t old_sreg = SREG; cli();
writeReg_begin ==
  /\ pc = "writeReg"
  /\ old_sreg' = SREG
  /\ SREG' = cli(SREG)
  /\ pc' = "w_send"
  /\ UNCHANGED <<pin, port, mode, latch, caller, entry_sreg, reg, val, tx, rx,
                 faults, lvl, ret, val_out, outWrites, result>>
  /\ UNCHANGED <<events, aux>>

\* the seven writeByte calls
writeReg_send ==
  /\ pc = "w_send"
  /\ Len(tx) < Len(writeRequest(reg, val))
  /\ writeByte(writeRequest(reg, val)[Len(tx) + 1])
  /\ UNCHANGED <<pin, port, SREG, pc, caller, entry_sreg, reg, val, old_sreg,
                 rx, faults, lvl, ret, val_out, outWrites, result>>
  /\ UNCHANGED aux

\* SREG = old_sreg; and the function returns
writeReg_end ==
  /\ pc = "w_send"
  /\ Len(tx) = Len(writeRequest(reg, val))
  /\ SREG' = restoreSREG(old_sreg)
  /\ pc' = "ret"
  /\ UNCHANGED <<pin, port, mode, latch, caller, entry_sreg, reg, val,
                 old_sreg, tx, rx, faults, lvl, ret, val_out, outWrites,
                 result>>
  /\ UNCHANGED <<events, aux>>

(***************************************************************************)
(* int HitecDServo::readReg(uint8_t reg, uint16_t *val_out)                *)
(***************************************************************************)
\* uint8_t old_sreg = SREG; cli();
readReg_begin ==
  /\ pc = "readReg"
  /\ old_sreg' = SREG
  /\ SREG' = cli(SREG)
  /\ pc' = "r_send"
  /\ UNCHANGED <<pin, port, mode, latch, caller, entry_sreg, reg, val, tx, rx,
                 faults, lvl, ret, val_out, outWrites, result>>
  /\ UNCHANGED <<events, aux>>

\* the five writeByte calls
readReg_send ==
  /\ pc = "r_send"
  /\ Len(tx) < Len(readRequest(reg))
  /\ writeByte(readRequest(reg)[Len(tx) + 1])
  /\ UNCHANGED <<pin, port, SREG, pc, caller, entry_sreg, reg, val, old_sreg,
                 rx, faults, lvl, ret, val_out, outWrites, result>>
  /\ UNCHANGED aux

\* digitalWrite(pin, LOW); SREG = old_sreg;
readReg_endRequest ==
  /\ pc = "r_send"
  /\ Len(tx) = Len(readRequest(reg))
  /\ \E t \in PinHits : latch' = digitalWrite_latch(latch, t, "LOW")
  /\ SREG' = restoreSREG(old_sreg)
  /\ pc' = "r_settle"
  /\ UNCHANGED <<pin, port, mode, caller, entry_sreg, reg, val, old_sreg, tx,
                 rx, faults, lvl, ret, val_out, outWrites, result>>
  /\ events' = events \o endRequestEvents
  /\ UNCHANGED aux

\* delay(14); pinMode(pin, INPUT_PULLUP);
readReg_release ==
  /\ pc = "r_settle"
  /\ \E t \in PinHits :
       /\ mode' = pinMode_mode(mode, t, "INPUT_PULLUP")
       /\ latch' = pinMode_latch(latch, t, "INPUT_PULLUP")
  /\ pc' = "r_probe"
  /\ UNCHANGED <<pin, port, SREG, caller, entry_sreg, reg, val, old_sreg, tx,
                 rx, faults, lvl, ret, val_out, outWrites, result>>
  /\ events' = events \o releaseEvents
  /\ UNCHANGED aux

\* if (digitalRead(pin) != LOW) { delay(2); pinMode(pin, OUTPUT);
\*   return HITECD_ERR_NO_SERVO; }  old_sreg = SREG; cli();
readReg_probe ==
  /\ pc = "r_probe"
  /\ \E level \in {"LOW", "HIGH"} :
       /\ lvl' = Append(lvl, level)
       /\ events' = events \o probeEvents(noServoCheck(level))
       /\ IF noServoCheck(level)
            THEN /\ \E t \in PinHits :
                      /\ mode' = pinMode_mode(mode, t, "OUTPUT")
                      /\ latch' = pinMode_latch(latch, t, "OUTPUT")
                 /\ ret' = <<HITECD_ERR_NO_SERVO>>
                 /\ pc' = "ret"
                 /\ UNCHANGED <<old_sreg, SREG>>
            ELSE /\ old_sreg' = SREG
                 /\ SREG' = cli(SREG)
                 /\ pc' = "r_recv"
                 /\ UNCHANGED <<mode, latch, ret>>
  /\ UNCHANGED <<pin, port, caller, entry_sreg, reg, val, tx, rx, faults,
                 val_out, outWrites, result>>
  /\ UNCHANGED aux

\* the seven readByte calls
readReg_receive ==
  /\ pc = "r_recv"
  /\ Len(rx) < 7
  /\ readByte
  /\ UNCHANGED <<pin, port, mode, latch, SREG, pc, caller, entry_sreg, reg,
                 val, old_sreg, tx, lvl, ret, val_out, outWrites, result>>
  /\ UNCHANGED aux

\* SREG = old_sreg;
readReg_endResponse ==
  /\ pc = "r_recv"
  /\ Len(rx) = 7
  /\ SREG' = restoreSREG(old_sreg)
  /\ pc' = "r_float"
  /\ UNCHANGED <<pin, port, mode, latch, caller, entry_sreg, reg, val,
                 old_sreg, tx, rx, faults, lvl, ret, val_out, outWrites,
                 result>>
  /\ UNCHANGED <<events, aux>>

\* delay(1); if (digitalRead(pin) != HIGH) { pinMode(pin, OUTPUT);
\*   return HITECD_ERR_NO_RESISTOR; }  pinMode(pin, OUTPUT);
readReg_float ==
  /\ pc = "r_float"
  /\ \E level \in {"LOW", "HIGH"} :
       /\ lvl' = Append(lvl, level)
       /\ IF noResistorCheck(level)
            THEN /\ ret' = <<HITECD_ERR_NO_RESISTOR>>
                 /\ pc' = "ret"
            ELSE /\ pc' = "r_validate"
                 /\ UNCHANGED ret
  /\ \E t \in PinHits :
       /\ mode' = pinMode_mode(mode, t, "OUTPUT")
       /\ latch' = pinMode_latch(latch, t, "OUTPUT")
  /\ UNCHANGED <<pin, port, SREG, caller, entry_sreg, reg, val, old_sreg, tx,
                 rx, faults, val_out, outWrites, result>>
  /\ events' = events \o floatEvents
  /\ UNCHANGED aux

\* the checks of the response with the store through val_out on every path
readReg_validate_storeAlways ==
  /\ pc = "r_validate"
  /\ ret' = <<validate(reg, rx)>>
  /\ val_out' = <<valueOf(rx[5], rx[6])>>
  /\ outWrites' = outWrites + 1
  /\ pc' = "ret"
  /\ UNCHANGED <<pin, port, mode, latch, SREG, caller, entry_sreg, reg, val,
                 old_sreg, tx, rx, faults, lvl, result, events, aux>>

\* the checks of the response, *val_out = low + (high << 8); return HITECD_OK;
readReg_validate ==
  /\ pc = "r_validate"
  /\ ret' = <<validate(reg, rx)>>
  /\ IF validate(reg, rx) = HITECD_OK
       THEN /\ val_out' = <<valueOf(rx[5], rx[6])>>
            /\ outWrites' = outWrites + 1
       ELSE UNCHANGED <<val_out, outWrites>>
  /\ pc' = "ret"
  /\ UNCHANGED <<pin, port, mode, latch, SREG, caller, entry_sreg, reg, val,
                 old_sreg, tx, rx, faults, lvl, result>>
  /\ UNCHANGED <<events, aux>>

(***************************************************************************)
(* Return to the caller of readReg / writeReg; the locals end.             *)
(***************************************************************************)
\* readModelNumber: if (res < 0) return res; return modelNumber; (the
\* uint16_t modelNumber is returned as int)
readModelNumber_result(res, out) ==
  IF res[1] < 0 THEN res ELSE <<ToInt16(out[1])>>

return ==
  /\ pc = "ret"
  /\ pc' = "idle"
  /\ result' = CASE caller = "readModelNumber" ->
                      readModelNumber_result(ret, val_out)
                 [] caller = "readRawRegister" -> ret
                 [] OTHER -> <<>>
  /\ reg' = 0
  /\ val' = 0
  /\ old_sreg' = 0
  /\ tx' = <<>>
  /\ rx' = <<>>
  /\ faults' = 0
  /\ lvl' = <<>>
  /\ ret' = <<>>
  /\ val_out' = <<>>
  /\ outWrites' = 0
  /\ events' = <<>>
  /\ UNCHANGED <<pin, port, mode, latch, SREG, caller, entry_sreg>>
  /\ UNCHANGED aux

Next ==
  \/ \E p \in Pins : attach(p)
  \/ detach
  \/ readModelNumber
  \/ \E r \in Regs : readRawRegister(r)
  \/ \E r \in Regs, v \in Vals : writeRawRegister(r, v)
  \/ writeReg_begin
  \/ writeReg_send
  \/ writeReg_end
  \/ readReg_begin
  \/ readReg_send
  \/ readReg_endRequest
  \/ readReg_release
  \/ readReg_probe
  \/ readReg_receive
  \/ readReg_endResponse
  \/ readReg_float
  \/ readReg_validate
  \/ return

Spec == Init /\ [][Next]_vars

(***************************************************************************)
(* readByte test by test of its wait for the start bit.  wire holds the    *)
(* levels of the ten bit slots of the byte that is on the line (<<>>: the  *)
(* line is silent, it stays LOW).                                          *)
(***************************************************************************)
\* --timeout_counter
decrement_none(t) == t
decrement(t) == t - 1

\* where readByte returns to
readByte_return == IF caller = "byte" THEN "b_done" ELSE "r_recv"

\* int timeout_counter = F_CPU * 0.004 / 15;
readByte_begin ==
  /\ pc = "rb_begin"
  /\ timeout_counter' = MaxPolls
  /\ pc' = "rb_poll"
  /\ UNCHANGED <<pin, port, mode, latch, SREG, caller, entry_sreg, locals,
                 result, modelNumber, wire, config, cfgResult, cfgLog,
                 servoRegs, sketch>>

\* one test of while (!(*pinInputRegister & pinBitMask)): the line is LOW
\* before the start bit arrives, if it ever does
readByte_poll ==
  /\ pc = "rb_poll"
  /\ \E level \in {"LOW"} \cup (IF wire = <<>> THEN {} ELSE {wire[1]}) :
       IF level = "HIGH"
         THEN /\ pc' = "rb_sample"
              /\ UNCHANGED <<timeout_counter, rx, events, wire>>
         ELSE /\ timeout_counter' = decrement(timeout_counter)
              /\ IF timeout_counter' = 0
                   THEN /\ rx' = Append(rx, HITECD_ERR_NO_SERVO)
                        /\ events' = Append(events, "readByte")
                        /\ wire' = <<>>
                        /\ pc' = readByte_return
                   ELSE UNCHANGED <<rx, events, wire, pc>>
  /\ UNCHANGED <<pin, port, mode, latch, SREG, caller, entry_sreg, reg, val,
                 old_sreg, tx, faults, lvl, ret, val_out, outWrites, result,
                 modelNumber, config, cfgResult, cfgLog, servoRegs, sketch>>

\* the eight data bits and the stop bit
readByte_sample ==
  /\ pc = "rb_sample"
  /\ rx' = Append(rx, readByte_value(Tail(wire)))
  /\ events' = Append(events, "readByte")
  /\ wire' = <<>>
  /\ pc' = readByte_return
  /\ UNCHANGED <<pin, port, mode, latch, SREG, caller, entry_sreg, reg, val,
                 old_sreg, tx, faults, lvl, ret, val_out, outWrites, result,
                 modelNumber, timeout_counter, config, cfgResult, cfgLog,
                 servoRegs, sketch>>

(***************************************************************************)
(* One byte from writeByte to readByte: every byte value is written, the   *)
(* line carries the levels as written or with the stop slot held HIGH,     *)
(* and readByte samples them.                                              *)
(***************************************************************************)
ByteInit ==
  /\ pin \in Pins
  /\ port = pin
  /\ mode = "OUTPUT"
  /\ latch = "LOW"
  /\ SREG \in SregValues
  /\ ~InterruptsEnabled(SREG)
  /\ pc = "b_idle"
  /\ caller = "byte"
  /\ entry_sreg = SREG
  /\ result = <<>>
  /\ NoLocals
  /\ AuxInit

byte_write(b) ==
  /\ pc = "b_idle"
  /\ writeByte(b)
  /\ wire' = writeByte_levels(b)
  /\ pc' = "b_sent"
  /\ UNCHANGED <<pin, port, SREG, caller, entry_sreg, reg, val, old_sreg, rx,
                 faults, lvl, ret, val_out, outWrites, result, modelNumber,
                 timeout_counter, config, cfgResult, cfgLog, servoRegs, sketch>>

\* the line is HIGH where the stop bit is expected
byte_holdStop ==
  /\ pc = "b_sent"
  /\ wire[10] = "LOW"
  /\ wire' = [wire EXCEPT ![10] = "HIGH"]
  /\ UNCHANGED <<pin, port, mode, latch, SREG, pc, caller, entry_sreg, locals,
                 result, modelNumber, timeout_counter, config, cfgResult,
                 cfgLog, servoRegs, sketch>>

byte_read ==
  /\ pc = "b_sent"
  /\ pc' = "rb_begin"
  /\ UNCHANGED <<pin, port, mode, latch, SREG, caller, entry_sreg, locals,
                 result, aux>>

ByteNext ==
  \/ \E b \in 0..255 : byte_write(b)
  \/ byte_holdStop
  \/ byte_read
  \/ readByte_begin
  \/ readByte_poll
  \/ readByte_sample

ByteSpec == ByteInit /\ [][ByteNext]_vars

(***************************************************************************)
(* Reads with readByte test by test.  While readReg waits for a byte the   *)
(* line is silent or carries the byte the servo answers with; the start    *)
(* bit may arrive after any number of tests.  The single thread of         *)
(* control always takes its next step (the delays end, nothing else        *)
(* runs), which is the fairness of LiveSpec.                               *)
(***************************************************************************)
AnswerBytes(i, r, b) ==
  IF i \in {2, 5, 6} THEN {ByteList[1]} ELSE Expected(i, r, b)
LineBehaviours(i, r, b) ==
  {<<>>} \cup {writeByte_levels(v) : v \in AnswerBytes(i, r, b)}

\* the next of the seven readByte calls is entered
readReg_awaitByte ==
  /\ pc = "r_recv"
  /\ Len(rx) < 7
  /\ wire' \in LineBehaviours(Len(rx) + 1, reg, rx)
  /\ pc' = "rb_begin"
  /\ UNCHANGED <<pin, port, mode, latch, SREG, caller, entry_sreg, locals,
                 result, modelNumber, timeout_counter, config, cfgResult,
                 cfgLog, servoRegs, sketch>>

LiveNext ==
  \/ \E p \in Pins : attach(p)
  \/ readModelNumber
  \/ readReg_begin
  \/ readReg_send
  \/ readReg_endRequest
  \/ readReg_release
  \/ readReg_probe
  \/ readReg_awaitByte
  \/ readByte_begin
  \/ readByte_poll
  \/ readByte_sample
  \/ readReg_endResponse
  \/ readReg_float
  \/ readReg_validate
  \/ return

LiveSpec == Init /\ [][LiveNext]_vars /\ WF_vars(LiveNext)

(***************************************************************************)
(* HitecDServoConfig and writeConfig.  The legal values are those the      *)
(* header documents field by field; writeConfig itself is modelled from    *)
(* the protocol description: validation of every field, the model check,   *)
(* the factory reset, one register write per field that is not the         *)
(* sentinel.  Every register access is one entry of cfgLog.                *)
(***************************************************************************)
LegalId == 0..254
LegalSpeed == {10, 20, 30, 40, 50, 60, 70, 80, 90, 100}
LegalDeadband == 1..10
LegalSoftStart == {20, 40, 60, 80, 100}
LegalRawAngle == 0..16383
LegalOverloadProtection == {100, 10, 20, 30, 40, 50}
LegalSensitivityRatio == 819..4095

\* "If you call writeConfig() with these values set to -1, then the
\* factory-default values will be kept."
KeepFactoryDefault == -1

CalibrationFields == {"rawAngleFor850", "rawAngleFor1500", "rawAngleFor2150"}
ConfigFields ==
  {"id", "counterclockwise", "speed", "deadband", "softStart", "failSafe",
   "failSafeLimp", "overloadProtection", "smartSense", "sensitivityRatio"}
    \cup CalibrationFields

\* HitecDServoConfig::defaultId ... defaultSensitivityRatio
DefaultConfig ==
  [id |-> 0, counterclockwise |-> FALSE, speed |-> 100, deadband |-> 1,
   softStart |-> 20, rawAngleFor850 |-> -1, rawAngleFor1500 |-> -1,
   rawAngleFor2150 |-> -1, failSafe |-> 0, failSafeLimp |-> FALSE,
   overloadProtection |-> 100, smartSense |-> TRUE,
   sensitivityRatio |-> 4095]

\* candidate values of the fields of the configurations handed to
\* writeConfig: the default first, then a value outside the legal set, then
\* another legal value
FieldList ==
  [id |-> <<0, 255, 254>>, speed |-> <<100, 15, 10>>,
   deadband |-> <<1, 11, 10>>, softStart |-> <<20, 30, 100>>,
   overloadProtection |-> <<100, 0, 50>>,
   sensitivityRatio |-> <<4095, 818, 819>>]
\* candidate values of rawAngleFor850, rawAngleFor1500, rawAngleFor2150:
\* all three the sentinel, none, some, and one above the 14-bit range
RawAngleList == <<<<-1, -1, -1>>, <<3381, 8192, 13002>>, <<-1, 8192, -1>>,
                  <<3381, -1, 16384>>>>
Choices(list) == {list[i] : i \in 1..Min(NumChoices, Len(list))}

\* the default configuration with at most one field changed, and the
\* candidate calibration fields
OneFieldChanged ==
  UNION { { [DefaultConfig EXCEPT ![f] = v] : v \in Choices(FieldList[f]) } :
            f \in DOMAIN FieldList }
Configs ==
  { [c EXCEPT !.rawAngleFor850 = a[1], !.rawAngleFor1500 = a[2],
              !.rawAngleFor2150 = a[3]] :
      c \in OneFieldChanged,
      a \in {RawAngleList[i] : i \in 1..Min(NumAngles, Len(RawAngleList))} }

LegalRawAngleField(a) == a = KeepFactoryDefault \/ a \in LegalRawAngle

LegalConfig_anySpeed(c) ==
  /\ c.id \in LegalId
  /\ c.deadband \in LegalDeadband
  /\ c.softStart \in LegalSoftStart
  /\ LegalRawAngleField(c.rawAngleFor850)
  /\ LegalRawAngleField(c.rawAngleFor1500)
  /\ LegalRawAngleField(c.rawAngleFor2150)
  /\ c.overloadProtection \in LegalOverloadProtection
  /\ c.sensitivityRatio \in LegalSensitivityRatio
LegalConfig(c) ==
  /\ c.id \in LegalId
  /\ c.speed \in LegalSpeed
  /\ c.deadband \in LegalDeadband
  /\ c.softStart \in LegalSoftStart
  /\ LegalRawAngleField(c.rawAngleFor850)
  /\ LegalRawAngleField(c.rawAngleFor1500)
  /\ LegalRawAngleField(c.rawAngleFor2150)
  /\ c.overloadProtection \in LegalOverloadProtection
  /\ c.sensitivityRatio \in LegalSensitivityRatio

\* the value a field is written as: plain integers as they are
BoolFields == {"counterclockwise", "failSafeLimp", "smartSense"}
encodeField(c, f) ==
  IF f \in BoolFields THEN (IF c[f] THEN 1 ELSE 0) ELSE c[f]

\* the order the fields are written in
FieldOrder ==
  <<"id", "counterclockwise", "speed", "deadband", "softStart",
    "rawAngleFor850", "rawAngleFor1500", "rawAngleFor2150", "failSafe",
    "failSafeLimp", "overloadProtection", "smartSense", "sensitivityRatio">>

\* a field is skipped when it is a calibration field holding the sentinel
skipped_never(c, f) == FALSE
skipped(c, f) == f \in CalibrationFields /\ c[f] = KeepFactoryDefault

WriteEntry(f, v) == [op |-> "write", field |-> f, value |-> v]
ReadEntry(f) == [op |-> "read", field |-> f, value |-> 0]

RECURSIVE fieldWrites(_, _)
fieldWrites(c, i) ==
  IF i > Len(FieldOrder) THEN <<>>
  ELSE (IF skipped(c, FieldOrder[i]) THEN <<>>
        ELSE <<WriteEntry(FieldOrder[i], encodeField(c, FieldOrder[i]))>>)
       \o fieldWrites(c, i + 1)

\* the calibration registers: FactoryDefault after the factory reset,
\* <<v>> after a write of v
FactoryDefault == <<>>
afterReset == [f \in CalibrationFields |-> FactoryDefault]
afterWrites(c) ==
  [f \in CalibrationFields |->
     IF skipped(c, f) THEN FactoryDefault ELSE <<encodeField(c, f)>>]

\* "e.g. 485 for a D485HW model"; "this only works for the D485HW model"
D485HW == 485
ModelReads == {<<D485HW>>, <<0>>, <<HITECD_ERR_NO_SERVO>>}
isModelSupported(mn) == mn = D485HW

writeConfigUnknownModelThisMightDamageTheServo(c, bypassModelNumberCheck) ==
  /\ pc = "idle"
  /\ caller' = "writeConfig"
  /\ config' = c
  /\ IF pin = NoPin
       THEN /\ cfgResult' = <<"NotAttached">>
            /\ cfgLog' = <<>>
            /\ UNCHANGED <<servoRegs, latch>>
       ELSE IF ~LegalConfig(c)
       THEN /\ cfgResult' = <<"Validation">>
            /\ cfgLog' = <<>>
            /\ UNCHANGED <<servoRegs, latch>>
       ELSE IF bypassModelNumberCheck
       THEN /\ cfgResult' = <<"OK">>
            /\ cfgLog' = <<WriteEntry("factoryReset", 0)>> \o fieldWrites(c, 1)
            /\ servoRegs' = afterWrites(c)
            /\ latch' = digitalWrite_latch(latch, TRUE, "LOW")
       ELSE \E mn \in ModelReads :
              IF mn[1] < 0
                THEN /\ cfgResult' = <<"NoServo">>
                     /\ cfgLog' = <<ReadEntry("modelNumber")>>
                     /\ latch' = pinMode_latch(latch, TRUE, "INPUT_PULLUP")
                     /\ UNCHANGED servoRegs
                ELSE IF ~isModelSupported(mn[1])
                THEN /\ cfgResult' = <<"UnsupportedModel">>
                     /\ cfgLog' = <<ReadEntry("modelNumber")>>
                     /\ latch' = pinMode_latch(latch, TRUE, "INPUT_PULLUP")
                     /\ UNCHANGED servoRegs
                ELSE /\ cfgResult' = <<"OK">>
                     /\ cfgLog' = <<ReadEntry("modelNumber"),
                                    WriteEntry("factoryReset", 0)>>
                                    \o fieldWrites(c, 1)
                     /\ servoRegs' = afterWrites(c)
                     /\ latch' = digitalWrite_latch(latch, TRUE, "LOW")
  /\ UNCHANGED <<pin, port, mode, SREG, pc, entry_sreg, locals, result,
                 modelNumber, wire, timeout_counter, sketch>>

writeConfig(c) ==
  writeConfigUnknownModelThisMightDamageTheServo(c, FALSE)

\* a constructed object and a servo whose calibration registers hold
\* values written earlier
CustomAngleList == <<3381, 8192, 13002>>
ConfigInit ==
  /\ pin = NoPin
  /\ port = NoPin
  /\ mode = "INPUT"
  /\ latch = "LOW"
  /\ SREG \in SregValues
  /\ pc = "idle"
  /\ caller = "none"
  /\ entry_sreg = SREG
  /\ result = <<>>
  /\ NoLocals
  /\ modelNumber = <<>>
  /\ wire = <<>>
  /\ timeout_counter = 0
  /\ config = <<>>
  /\ cfgResult = <<>>
  /\ cfgLog = <<>>
  /\ servoRegs \in {[f \in CalibrationFields |-> <<a>>] :
                      a \in Choices(CustomAngleList)}
  /\ SketchInit

ConfigNext ==
  \/ \E p \in Pins : attach(p)
  \/ detach
  \/ \E c \in Configs : writeConfig(c)
  \/ \E c \in Configs :
       writeConfigUnknownModelThisMightDamageTheServo(c, TRUE)

ConfigSpec == ConfigInit /\ [][ConfigNext]_vars

(***************************************************************************)
(* HitecDProgrammer, Move.cpp: the temporary gentle-movement settings.     *)
(* The servo answers a read that succeeds with the content of the register *)
(* and applies every write; a read may also fail.  Each function is one    *)
(* step.                                                                   *)
(***************************************************************************)
GENTLE_MOVEMENT_RANGE_LEFT_APV == 50
GENTLE_MOVEMENT_RANGE_CENTER_APV == 8192
GENTLE_MOVEMENT_RANGE_RIGHT_APV == 16333

\* 0xB2, 0xC2, 0xB0, 0x54, 0x56 in the order they are read and written
GentleRegs == <<178, 194, 176, 84, 86>>
RegSet(q) == {q[i] : i \in 1..Len(q)}
IndexOf(r, q) == CHOOSE i \in 1..Len(q) : q[i] = r

\* the values useGentleMovementSettings writes
GentleValues ==
  [r \in RegSet(GentleRegs) |->
     CASE r = 178 -> GENTLE_MOVEMENT_RANGE_LEFT_APV
       [] r = 194 -> GENTLE_MOVEMENT_RANGE_CENTER_APV
       [] r = 176 -> GENTLE_MOVEMENT_RANGE_RIGHT_APV
       [] r = 84 -> 5
       [] r = 86 -> 400]

\* where control is after printErr(res, needReset): with needReset the
\* sketch goes no further until the board is reset
printErr(needReset) == IF needReset THEN "halted" ELSE "idle"

\* saved0x.. after the first k reads succeeded
savedAfter(k) ==
  [r \in RegSet(GentleRegs) |->
     IF IndexOf(r, GentleRegs) <= k THEN registers[r] ELSE saved[r]]

\* servo.writeRawRegister(0xB2, saved0xB2); ...
restoreValue_kept(r) == registers[r]
restoreValue(r) == saved[r]

\* the body of useGentleMovementSettings: k reads succeed, and control goes
\* to after when the function returns
useGentleMovementSettings_body(k, after) ==
  IF usingGentleMovementSettings
    THEN /\ pc' = after
         /\ UNCHANGED sketch
    ELSE /\ saved' = savedAfter(k)
         /\ IF k < Len(GentleRegs)
              THEN /\ pc' = printErr(TRUE)
                   /\ UNCHANGED <<registers, usingGentleMovementSettings,
                                  original>>
              ELSE /\ registers' = GentleValues
                   /\ usingGentleMovementSettings' = TRUE
                   /\ original' = registers
                   /\ pc' = after

useGentleMovementSettings ==
  /\ pc = "idle"
  /\ caller' = "useGentleMovementSettings"
  /\ \E k \in 0..Len(GentleRegs) : useGentleMovementSettings_body(k, "idle")
  /\ UNCHANGED <<pin, port, mode, latch, SREG, entry_sreg, locals, result,
                 modelNumber, wire, timeout_counter, config, cfgResult,
                 cfgLog, servoRegs>>

\* the writes back, then readSettings, which may fail
undoGentleMovementSettings ==
  /\ pc = "idle"
  /\ caller' = "undoGentleMovementSettings"
  /\ IF ~usingGentleMovementSettings
       THEN UNCHANGED <<pc, sketch>>
       ELSE /\ registers' = [r \in RegSet(GentleRegs) |-> restoreValue(r)]
            /\ \E ok \in BOOLEAN :
                 IF ok THEN /\ usingGentleMovementSettings' = FALSE
                            /\ pc' = "idle"
                       ELSE /\ pc' = printErr(TRUE)
                            /\ UNCHANGED usingGentleMovementSettings
            /\ UNCHANGED <<saved, original>>
  /\ UNCHANGED <<pin, port, mode, latch, SREG, entry_sreg, locals, result,
                 modelNumber, wire, timeout_counter, config, cfgResult,
                 cfgLog, servoRegs>>

\* useGentleMovementSettings(), the target write, the position reads (which
\* may fail)
moveGentlyToAPV ==
  /\ pc = "idle"
  /\ caller' = "moveGentlyToAPV"
  /\ \E k \in 0..Len(GentleRegs), ok \in BOOLEAN :
       useGentleMovementSettings_body(k, IF ok THEN "idle"
                                         ELSE printErr(TRUE))
  /\ UNCHANGED <<pin, port, mode, latch, SREG, entry_sreg, locals, result,
                 modelNumber, wire, timeout_counter, config, cfgResult,
                 cfgLog, servoRegs>>

\* contents of the five registers before the sketch touches them
OriginalList ==
  <<<<3381, 8192, 13002, 20, 4095>>, <<0, 65535, 1, 5, 400>>,
    <<50, 16333, 8192, 400, 5>>, <<100, 200, 300, 0, 65535>>>>
Originals ==
  { [r \in RegSet(GentleRegs) |-> q[IndexOf(r, GentleRegs)]] :
      q \in {OriginalList[i] :
                i \in 1..Min(NumOriginals, Len(OriginalList))} }

\* the sketch writes a configuration while the gentle-movement settings are
\* not in use
writeSettings ==
  /\ pc = "idle"
  /\ ~usingGentleMovementSettings
  /\ caller' = "writeSettings"
  /\ registers' \in Originals
  /\ UNCHANGED <<pin, port, mode, latch, SREG, pc, entry_sreg, locals, result,
                 modelNumber, wire, timeout_counter, config, cfgResult,
                 cfgLog, servoRegs, usingGentleMovementSettings, saved,
                 original>>

GentleInit ==
  /\ pin \in Pins
  /\ port = pin
  /\ mode = "OUTPUT"
  /\ latch = "LOW"
  /\ SREG \in SregValues
  /\ InterruptsEnabled(SREG)
  /\ pc = "idle"
  /\ caller = "none"
  /\ entry_sreg = SREG
  /\ result = <<>>
  /\ NoLocals
  /\ modelNumber = <<>>
  /\ wire = <<>>
  /\ timeout_counter = 0
  /\ config = <<>>
  /\ cfgResult = <<>>
  /\ cfgLog = <<>>
  /\ servoRegs = <<>>
  /\ usingGentleMovementSettings = FALSE
  /\ saved = [r \in RegSet(GentleRegs) |-> 0]
  /\ registers \in Originals
  /\ original = <<>>

GentleNext ==
  \/ useGentleMovementSettings
  \/ undoGentleMovementSettings
  \/ moveGentlyToAPV
  \/ writeSettings

GentleSpec == GentleInit /\ [][GentleNext]_vars

(***************************************************************************)
(* Wide inputs.  WideSpec adds, to the behaviours of Spec, calls that are  *)
(* entered with every register address, and reads that have received       *)
(* responses drawn from wider sets: every pair of value bytes, and every   *)
(* replacement of one byte of a well-formed response by anything readByte  *)
(* can return.                                                             *)
(***************************************************************************)
\* mystery byte and 16-bit value of the well-formed responses that get a
\* byte replaced: (0xFF, 0xFFFF) and (0xFD, 0xFDFD) have the low eight bits
\* of the error codes -1 and -3 in every position
SeedList == <<<<255, 65535>>, <<253, 65021>>, <<0, 4660>>, <<128, 32768>>,
              <<1, 255>>>>
Seeds == {SeedList[i] : i \in 1..Min(NumSeeds, Len(SeedList))}

\* well-formed responses to a read of register r, one byte replaced or none
ReplacedFrames(r) ==
  { [w EXCEPT ![k] = b] :
      w \in { WellFormedFrame(r, sd[1], sd[2] % 256, sd[2] \div 256) :
                sd \in Seeds },
      k \in 1..7, b \in ReadByteResults }

\* well-formed responses with every pair of value bytes
ValueFrames(r) ==
  { WellFormedFrame(r, ByteList[1], lo, hi) : lo \in 0..255, hi \in 0..255 }

\* well-formed responses with every value of the mystery byte
MysteryFrames(r) ==
  { WellFormedFrame(r, m, sd[2] % 256, sd[2] \div 256) :
      m \in 0..255, sd \in Seeds }

\* readReg on an attached servo, entered with interrupts enabled, at the
\* checks of the response: both line tests passed, seven bytes received
FrameInit ==
  /\ pin \in Pins
  /\ \A q \in Pins : pin <= q
  /\ port = pin
  /\ mode = "OUTPUT"
  /\ latch = "HIGH"
  /\ SREG \in SregValues
  /\ InterruptsEnabled(SREG)
  /\ entry_sreg = SREG
  /\ old_sreg = SREG
  /\ pc = "r_validate"
  /\ caller = "readRawRegister"
  /\ reg \in Regs
  /\ val = 0
  /\ tx = readRequest(reg)
  /\ rx \in ReplacedFrames(reg) \cup
              (IF reg = RegList[1]
                 THEN ValueFrames(reg) \cup MysteryFrames(reg) ELSE {})
  /\ faults = FaultCount(reg, rx)
  /\ lvl = <<"LOW", "HIGH">>
  /\ ret = <<>>
  /\ val_out = <<>>
  /\ outWrites = 0
  /\ result = <<>>
  /\ events = eventsAtValidate
  /\ AuxInit

\* writeReg on an attached servo, just entered, for every register address
WriteInit ==
  /\ pin \in Pins
  /\ \A q \in Pins : pin <= q
  /\ port = pin
  /\ mode = "OUTPUT"
  /\ latch = "LOW"
  /\ SREG \in SregValues
  /\ entry_sreg = SREG
  /\ old_sreg = 0
  /\ pc = "writeReg"
  /\ caller = "writeRawRegister"
  /\ reg \in 0..255
  /\ val \in Vals
  /\ tx = <<>>
  /\ rx = <<>>
  /\ faults = 0
  /\ lvl = <<>>
  /\ ret = <<>>
  /\ val_out = <<>>
  /\ outWrites = 0
  /\ result = <<>>
  /\ events = <<>>
  /\ AuxInit

WideInit == Init \/ FrameInit \/ WriteInit

WideSpec == WideInit /\ [][Next]_vars

(***************************************************************************)
(* Properties.                                                             *)
(***************************************************************************)
Readers == {"readModelNumber", "readRawRegister"}
Operations == Readers \cup {"writeRawRegister"}

\* the response validations as the protocol states them
WellFormed(r, b) ==
  /\ Len(b) = 7
  /\ \A i \in 1..7 : b[i] \in 0..255
  /\ b[1] = 105
  /\ b[3] = r
  /\ b[4] = 2
  /\ b[7] = (b[2] + b[3] + 2 + b[5] + b[6]) % 256

\* b is a well-formed response to a read of r with exactly byte k changed
CorruptedAt(k, r, b) ==
  LET m == IF k = 2 THEN (b[7] - r - 2 - b[5] - b[6]) % 256 ELSE b[2]
      lo == IF k = 5 THEN (b[7] - r - 2 - b[2] - b[6]) % 256 ELSE b[5]
      hi == IF k = 6 THEN (b[7] - r - 2 - b[2] - b[5]) % 256 ELSE b[6]
      w == <<105, m, r, 2, lo, hi, (m + r + 2 + lo + hi) % 256>>
  IN /\ m \in 0..255
     /\ lo \in 0..255
     /\ hi \in 0..255
     /\ {i \in 1..7 : b[i] # w[i]} = {k}
SingleCorruption(r, b) == Len(b) = 7 /\ \E k \in 1..7 : CorruptedAt(k, r, b)

\* C1: after detach(), while no pin is bound, every operation other than
\* attach / detach fails at once with NotAttached: no exchange is started
\* and no byte is transmitted
C1_NotAttachedFailsAtOnce ==
  (pin = NoPin /\ port # NoPin /\ caller \in Operations) =>
    /\ pc = "idle"
    /\ tx = <<>>
    /\ result = <<-5>>

\* C2: a read that does not find the released line LOW ends at once with
\* NoServo: no response byte has been received, nothing has been stored
\* through val_out
C2_NoServo ==
  (lvl # <<>> /\ lvl[1] # "LOW") =>
    /\ pc = "ret"
    /\ ret = <<-1>>
    /\ rx = <<>>
    /\ val_out = <<>>
    /\ outWrites = 0
C2_Witness ==
  /\ pc = "ret"
  /\ lvl = <<"HIGH">>
  /\ reg = 178
  /\ ret = <<-1>>

\* C3: a read that found the line LOW at release and does not find it HIGH
\* after the seven response bytes ends with NoResistor, whatever the seven
\* bytes were
C3_NoResistor ==
  (Len(lvl) = 2 /\ lvl[1] = "LOW" /\ lvl[2] # "HIGH") =>
    /\ pc = "ret"
    /\ Len(rx) = 7
    /\ ret = <<-2>>
    /\ val_out = <<>>
C3_Witness ==
  /\ pc = "ret"
  /\ lvl = <<"LOW", "LOW">>
  /\ WellFormed(reg, rx)
  /\ ret = <<-2>>

\* C4: a read that passed both line tests returns Corrupt when the first
\* byte is not 0x69, the echoed register is not the requested one, the
\* fourth byte is not 0x02, the checksum byte is not the sum modulo 256, or
\* any byte timed out or had a framing fault; once the servo was detected
\* the result is never NoServo
C4_Corrupt ==
  /\ (pc = "ret" /\ lvl = <<"LOW", "HIGH">>) =>
       ( ( \/ rx[1] # 105
           \/ rx[3] # reg
           \/ rx[4] # 2
           \/ rx[7] # (rx[2] + rx[3] + 2 + rx[5] + rx[6]) % 256
           \/ \E i \in 1..7 : rx[i] < 0 )
         => ret = <<-3>> )
  /\ (pc = "ret" /\ lvl # <<>> /\ lvl[1] = "LOW") => ret # <<-1>>
C4_Witness ==
  /\ pc = "ret"
  /\ lvl = <<"LOW", "HIGH">>
  /\ rx[1] = 105
  /\ rx[2] = -1
  /\ rx[3] = reg
  /\ rx[4] = 2
  /\ rx[5] >= 0
  /\ rx[6] >= 0
  /\ rx[7] = (rx[2] + rx[3] + rx[4] + rx[5] + rx[6]) % 256
  /\ ret = <<-3>>

\* C5: a read that passed both line tests and received a well-formed
\* response with exactly one byte changed (to another byte, a time-out or a
\* framing fault) returns Corrupt
C5_SingleCorruption ==
  (pc = "ret" /\ lvl = <<"LOW", "HIGH">> /\ SingleCorruption(reg, rx)) =>
    ret = <<-3>>
C5_Witness ==
  /\ pc = "ret"
  /\ lvl = <<"LOW", "HIGH">>
  /\ CorruptedAt(5, reg, rx)
  /\ rx[5] \in 0..255
  /\ ret = <<-3>>

\* C6: a read returns OK exactly when both line tests passed and the
\* response is well-formed, and the value stored is then valLo + 256 * valHi
C6_OkValue ==
  (pc = "ret" /\ caller \in Readers) =>
    /\ ret = <<1>> <=> (lvl = <<"LOW", "HIGH">> /\ WellFormed(reg, rx))
    /\ ret = <<1>> => (val_out = <<rx[5] + 256 * rx[6]>> /\ outWrites = 1)
C6_Witness ==
  /\ pc = "ret"
  /\ ret = <<1>>
  /\ rx[5] = 77
  /\ rx[6] = 200
  /\ val_out = <<51277>>

\* C7: a write of val to reg hands writeByte exactly 0x96, 0x00, reg, 0x02,
\* val mod 256, val div 256 and the checksum, in this order, and returns with
\* the pin still an output and nothing read
C7_WriteFrame ==
  (caller = "writeRawRegister" /\ pc \in {"writeReg", "w_send", "ret"}) =>
    LET frame == <<150, 0, reg, 2, val % 256, val \div 256,
                   (0 + reg + 2 + (val % 256) + (val \div 256)) % 256>>
    IN /\ Len(tx) <= 7
       /\ tx = SubSeq(frame, 1, Len(tx))
       /\ pc = "ret" => tx = frame
       /\ mode = "OUTPUT"
       /\ rx = <<>>
       /\ lvl = <<>>
C7_Witness ==
  /\ pc = "ret"
  /\ caller = "writeRawRegister"
  /\ reg = 200
  /\ val = 65535
  /\ tx = <<150, 0, 200, 2, 255, 255, 200>>

\* C8: a read of reg hands writeByte exactly 0x96, 0x00, reg, 0x00 and the
\* checksum reg mod 256, once, whatever the outcome of the read
C8_ReadRequest ==
  (caller \in Readers /\ pc # "idle") =>
    LET request == <<150, 0, reg, 0, (0 + reg + 0) % 256>>
    IN /\ Len(tx) <= 5
       /\ tx = SubSeq(request, 1, Len(tx))
       /\ pc \notin {"readReg", "r_send"} => tx = request
C8_Witness ==
  /\ pc = "ret"
  /\ caller = "readRawRegister"
  /\ ret = <<-3>>
  /\ tx = <<150, 0, 178, 0, 178>>

\* C9 as stated: on an attached servo, from the first bit of the request to
\* the last bit of the response of a read, and from the first to the last
\* bit of a write, interrupts are disabled
C9_OneCriticalSection ==
  (pin # NoPin /\
   pc \in {"r_send", "r_settle", "r_probe", "r_recv", "w_send"}) =>
    ~InterruptsEnabled(SREG)
\* C9 amended: interrupts are disabled while the bytes of the request are
\* transmitted and again while the bytes of the response are received;
\* in between SREG is what it was on entry.  A write is covered from its
\* first to its last bit
C9_TwoCriticalSections ==
  /\ pc \in {"r_send", "r_recv", "w_send"} => ~InterruptsEnabled(SREG)
  /\ pc \in {"r_settle", "r_probe"} => SREG = entry_sreg
C9_Witness ==
  /\ pc = "r_recv"
  /\ Len(rx) = 3
  /\ InterruptsEnabled(entry_sreg)
  /\ ~InterruptsEnabled(SREG)

\* C10: when readReg or writeReg returns, on whichever path, the interrupt
\* flag is what it was when the call was entered
C10_InterruptsRestored ==
  pc = "ret" => (InterruptsEnabled(SREG) <=> InterruptsEnabled(entry_sreg))
C10_Witness ==
  /\ pc = "ret"
  /\ ret = <<-2>>
  /\ ~InterruptsEnabled(entry_sreg)
  /\ ~InterruptsEnabled(SREG)

\* writeConfig has returned on an attached servo
ConfigReturned == caller = "writeConfig" /\ pin # NoPin
WritesOf(log) == SelectSeq(log, LAMBDA e : e.op = "write")

\* some field of c is outside the legal set the header documents for it
OutsideLegalSet(c) ==
  \/ c.id \notin LegalId
  \/ c.speed \notin LegalSpeed
  \/ c.deadband \notin LegalDeadband
  \/ c.softStart \notin LegalSoftStart
  \/ \E f \in CalibrationFields : c[f] \notin LegalRawAngle \cup {-1}
  \/ c.overloadProtection \notin LegalOverloadProtection
  \/ c.sensitivityRatio \notin LegalSensitivityRatio

\* C11: writeConfig with a field outside its legal set fails with
\* Validation before any hardware access: the call leaves an empty register
\* log (no factory reset, no field write, no read) and changes neither the
\* calibration registers of the servo nor the line
C11_ValidationBeforeAccess ==
  [][(caller' = "writeConfig" /\ pin # NoPin /\ OutsideLegalSet(config')) =>
       /\ cfgResult' = <<"Validation">>
       /\ cfgLog' = <<>>
       /\ UNCHANGED <<servoRegs, mode, latch>>]_vars

\* writeConfig was handed speed = 15 and failed with Validation
C11_Witness ==
  /\ ConfigReturned
  /\ config.speed = 15
  /\ cfgResult = <<"Validation">>
  /\ cfgLog = <<>>

\* C12: a writeConfig that succeeds issues no write for a calibration field
\* holding -1, so that register keeps the value the factory reset gave it,
\* and issues exactly one write, of the field's value, for every other
\* field, after the factory reset
C12_SentinelSkipped ==
  (ConfigReturned /\ cfgResult = <<"OK">>) =>
    /\ WritesOf(cfgLog)[1] = WriteEntry("factoryReset", 0)
    /\ \A f \in ConfigFields :
         LET n == Cardinality({i \in 1..Len(cfgLog) :
                                 cfgLog[i].op = "write" /\
                                 cfgLog[i].field = f})
         IN IF f \in CalibrationFields /\ config[f] = -1
              THEN n = 0 /\ servoRegs[f] = FactoryDefault
              ELSE /\ n = 1
                   /\ \E i \in 2..Len(cfgLog) :
                        cfgLog[i] = WriteEntry(f, encodeField(config, f))

\* a successful writeConfig with all three calibration fields -1
C12_Witness ==
  /\ ConfigReturned
  /\ cfgResult = <<"OK">>
  /\ \A f \in CalibrationFields : config[f] = -1
  /\ \A i \in 1..Len(cfgLog) : cfgLog[i].field \notin CalibrationFields
  /\ Len(WritesOf(cfgLog)) = 11
  /\ servoRegs = afterReset

\* C13: attached() is false on the constructed object and changes only by
\* attach and detach: every attach, whatever came before it (a detach
\* included), leaves attached() true and the pin an output with its latch
\* LOW; every detach leaves attached() false
C13_Lifecycle ==
  /\ ~attached
  /\ [][/\ caller' = "attach" =>
             attached' /\ port' = pin' /\ mode' = "OUTPUT" /\ latch' = "LOW"
        /\ caller' = "detach" => ~attached'
        /\ attached' # attached => caller' \in {"attach", "detach"}]_vars

\* attach has returned: the servo is attached, the pin an output at LOW
C13_Witness ==
  /\ caller = "attach"
  /\ pc = "idle"
  /\ attached
  /\ mode = "OUTPUT"
  /\ latch = "LOW"

\* C14: readModelNumber reads register 0x00 and, when the read succeeds,
\* stores the model number in the member modelNumber of the object, where it
\* stays until detach(): after a readModelNumber that returned a model
\* number the member holds that number
C14_ModelNumberCached ==
  /\ (caller = "readModelNumber" /\ pc # "idle") => reg = 0
  /\ (caller = "readModelNumber" /\ pc = "idle" /\ attached /\
      result # <<>> /\ result[1] >= 0) => modelNumber = result

\* C15: writeByte(b) produces ten bit slots: the start slot HIGH, the
\* eight data bits least significant first with HIGH for 0 and LOW for 1,
\* the stop slot LOW; readByte sampling these slots returns b, and returns
\* the framing fault HITECD_ERR_CORRUPT when the stop slot is HIGH
C15_ByteRoundTrip ==
  /\ (caller = "byte" /\ pc = "b_sent" /\ wire[10] = "LOW") =>
       /\ Len(wire) = 10
       /\ wire[1] = "HIGH"
       /\ \A k \in 0..7 :
            wire[k + 2] = (IF (tx[1] \div (2 ^ k)) % 2 = 0 THEN "HIGH"
                           ELSE "LOW")
  /\ (caller = "byte" /\ pc = "rb_sample") =>
       /\ wire[10] = "LOW" => readByte_value(Tail(wire)) = tx[1]
       /\ wire[10] = "HIGH" => readByte_value(Tail(wire)) = -3
  /\ (caller = "byte" /\ pc = "b_done" /\ rx[1] \notin {-1, -3}) =>
       rx = tx

\* the byte 0xA5 was written and read back
C15_Witness ==
  /\ caller = "byte"
  /\ pc = "b_done"
  /\ tx = <<165>>
  /\ rx = <<165>>

\* C16: every register read terminates, whatever the line does: the
\* counter of each readByte stays within its bound, every readByte that is
\* entered returns (it sees the start bit or gives up when the counter
\* reaches 0), and every readReg that is entered returns one of OK,
\* NoServo, NoResistor, Corrupt
C16_ReadTerminates ==
  /\ [](timeout_counter \in 0..MaxPolls)
  /\ (pc = "rb_begin") ~> (pc = "r_recv")
  /\ (pc = "readReg") ~> (pc = "ret" /\ ret # <<>> /\ ret[1] \in {1, -1, -2, -3})

\* a read has returned although the line stayed silent for all seven bytes
C16_Witness ==
  /\ pc = "ret"
  /\ rx = <<-1, -1, -1, -1, -1, -1, -1>>
  /\ ret = <<-3>>

\* position of the first e in the sequence q (0: none)
Pos(e, q) ==
  IF \E i \in 1..Len(q) : q[i] = e
    THEN CHOOSE i \in 1..Len(q) : q[i] = e /\ \A j \in 1..(i - 1) : q[j] # e
    ELSE 0
IsPrefix(q, w) == Len(q) <= Len(w) /\ \A i \in 1..Len(q) : q[i] = w[i]

\* C17 as stated: in a read on an attached servo that has received a
\* response byte, the line was released after the last request byte, the
\* servo-present test was made at once on release, the settle delay came
\* after that test, and the first response byte after the settle delay
C17_SettleAfterCheck ==
  (caller \in Readers /\ attached /\ Pos("readByte", events) > 0) =>
    /\ Pos("pinMode_INPUT_PULLUP", events) > 5
    /\ Pos("digitalRead", events) = Pos("pinMode_INPUT_PULLUP", events) + 1
    /\ Pos("delay_14", events) > Pos("digitalRead", events)
    /\ Pos("readByte", events) > Pos("delay_14", events)

\* C17, amended: the statements of a read on an attached servo come in this
\* order: the five request bytes, the line driven LOW, the 14 ms settle
\* delay, the release to the pulled-up input, the servo-present test at
\* once on release, then (the test passed) the seven response bytes with no
\* delay before the first, the 1 ms delay, the line-HIGH test and the
\* return to output; a failed servo-present test is followed by a 2 ms
\* delay and the return to output
C17_HandshakeOrder ==
  (caller \in Readers /\ attached) =>
    \/ IsPrefix(events,
         <<"writeByte", "writeByte", "writeByte", "writeByte", "writeByte",
           "digitalWrite_LOW", "delay_14", "pinMode_INPUT_PULLUP",
           "digitalRead", "readByte", "readByte", "readByte", "readByte",
           "readByte", "readByte", "readByte", "delay_1", "digitalRead",
           "pinMode_OUTPUT">>)
    \/ /\ ret = <<-1>>
       /\ events =
            <<"writeByte", "writeByte", "writeByte", "writeByte", "writeByte",
              "digitalWrite_LOW", "delay_14", "pinMode_INPUT_PULLUP",
              "digitalRead", "delay_2", "pinMode_OUTPUT">>

\* a read has received its first response byte: the settle delay precedes
\* the release, the test follows it, the byte follows the test
C17_Witness ==
  /\ caller \in Readers
  /\ attached
  /\ pc = "r_recv"
  /\ Len(rx) = 1
  /\ events = <<"writeByte", "writeByte", "writeByte", "writeByte",
                "writeByte", "digitalWrite_LOW", "delay_14",
                "pinMode_INPUT_PULLUP", "digitalRead", "readByte">>

\* C18: the mystery byte is opaque: a response that passed both line tests
\* and is well-formed for its own mystery byte, whatever that byte is, makes
\* the read return OK, and the outcome and the value stored are those of the
\* response that differs from it in the mystery byte (0) and the checksum
\* only
C18_MysteryOpaque ==
  (/\ pc = "ret"
   /\ caller \in Readers
   /\ lvl = <<"LOW", "HIGH">>
   /\ Len(rx) = 7
   /\ \A i \in 1..7 : rx[i] \in 0..255
   /\ rx[1] = 105 /\ rx[3] = reg /\ rx[4] = 2
   /\ rx[7] = (rx[2] + reg + 2 + rx[5] + rx[6]) % 256) =>
    LET other == <<105, 0, reg, 2, rx[5], rx[6],
                   (reg + 2 + rx[5] + rx[6]) % 256>>
    IN /\ ret = <<1>>
       /\ ret = <<validate(reg, other)>>
       /\ val_out = <<valueOf(other[5], other[6])>>

\* a read has returned OK on a response whose mystery byte is 0xAB
C18_Witness ==
  /\ pc = "ret"
  /\ caller \in Readers
  /\ Len(rx) = 7
  /\ rx[2] = 171
  /\ ret = <<1>>
  /\ val_out = <<65535>>

\* C19: after attach and after every completed write or read, whatever its
\* outcome, the pin is an output and its latch is LOW (the idle level), so
\* that the start bit of the next byte is a LOW-to-HIGH edge
C19_IdleLine ==
  (pc = "idle" /\ attached /\
   caller \in {"attach", "writeRawRegister", "readModelNumber"}) =>
    /\ mode = "OUTPUT"
    /\ latch = "LOW"
    /\ writeByte_levels(0)[1] = "HIGH"

\* C20: a read that fails (NoServo, NoResistor or Corrupt) leaves the
\* location val_out points to as it was: nothing is stored through val_out
\* before readReg returns, on no path but that of OK, and there exactly once
C20_OutputOnlyOnOk ==
  caller \in Readers =>
    /\ pc \notin {"ret", "idle"} => (outWrites = 0 /\ val_out = <<>>)
    /\ (pc = "ret" /\ ret # <<1>>) =>
         (ret[1] \in {-1, -2, -3} /\ outWrites = 0 /\ val_out = <<>>)
    /\ (pc = "ret" /\ ret = <<1>>) => (outWrites = 1 /\ Len(val_out) = 1)

\* a read has failed with NoResistor after seven bytes that would have
\* passed the validation, and stored nothing
C20_Witness ==
  /\ caller \in Readers
  /\ pc = "ret"
  /\ ret = <<-2>>
  /\ WellFormed(reg, rx)
  /\ outWrites = 0
  /\ val_out = <<>>

\* C21: readModelNumber on an attached servo returns a negative value
\* exactly when readReg failed: what it returns after a readReg that
\* returned OK is not negative, so it is none of the error codes -1 .. -5
C21_NegativeIffFailed ==
  [][(caller = "readModelNumber" /\ attached /\ pc = "ret" /\ pc' = "idle") =>
       /\ result'[1] < 0 <=> ret # <<1>>
       /\ ret = <<1>> => result'[1] \notin -5..-1]_vars

====
